---- MODULE Spec2Model ----
(***************************************************************************)
(* Model of the Hermes bytecode debug-information codec                    *)
(* (lib/BCGen/HBC/DebugInfo.cpp): the DebugInfoGenerator that encodes      *)
(* per-function source-location streams, file regions and lexical scope    *)
(* records, the FunctionDebugInfoDeserializer cursor, and the queries of   *)
(* the serialized DebugInfo.                                               *)
(*                                                                         *)
(* Buffers are sequences of bytes (0..255); byte offsets are 0-based as in *)
(* the source, so the byte at offset o of buffer d is d[o + 1].            *)
(* The values that occur in the model stay far below 2^31, so no uint32_t  *)
(* or int32_t conversion of the source wraps on well-formed streams.       *)
(***************************************************************************)
EXTENDS Integers, Sequences, FiniteSets, TLC

VARIABLES
  sourcesData_,   \* DebugInfoGenerator::sourcesData_ (bytes)
  files_,         \* DebugInfoGenerator::files_ (file regions)
  lexicalData_,   \* DebugInfoGenerator::lexicalData_ (bytes)
  validData,      \* DebugInfoGenerator::validData
  debugInfo,      \* the DebugInfo returned by serializeWithMove, or NoDebugInfo
  sourceMap,      \* lines given to SourceMapGenerator::addMappingsLine
  funcs,          \* history: the appendSourceLocations calls, with what they returned
  scopes,         \* history: the appendLexicalData calls, with what they returned
  aborted         \* an assert() of the source has failed: the process is gone

vars == <<sourcesData_, files_, lexicalData_, validData, debugInfo, sourceMap,
          funcs, scopes, aborted>>

(***************************************************************************)
(* Bounds of the model.                                                    *)
(***************************************************************************)
\* Total work given to the generator: one unit per append call and one more
\* per location of the call's list.
MaxWork == 4
\* Number of populateSourceMap calls on one source map.
MaxMapLines == 1

\* OptValue<T>: llvm::None is the empty sequence, a present value v is <<v>>.
None == <<>>
Some(v) == <<v>>

\* The element of a one-element set. {e(x) : x \in {v}} computes v once and
\* binds x to its value.
Only(S) == CHOOSE x \in S : TRUE

(***************************************************************************)
(* Signed LEB128 (hermes/Support/LEB128.h, described in spec section 4.1). *)
(***************************************************************************)
RECURSIVE encodeSLEB128(_)
\* The bytes of v: seven payload bits per byte, bit 7 = "more follows",
\* the last byte's bit 6 is the sign.
encodeSLEB128(v) ==
  LET byte == v % 128
      rest == (v - byte) \div 128
      done == (rest = 0 /\ byte < 64) \/ (rest = -1 /\ byte >= 64)
  IN  IF done THEN <<byte>> ELSE <<byte + 128>> \o encodeSLEB128(rest)

appendSignedLEB128(vector, value) == vector \o encodeSLEB128(value)

RECURSIVE readSLEB128From(_, _, _, _, _)
\* Accumulate the bytes from data[offset]; mult is 2^shift.
readSLEB128From(data, offset, mult, acc, n) ==
  IF offset >= Len(data)
    THEN [ok |-> FALSE, value |-> 0, size |-> n]
    ELSE LET b == data[offset + 1]
             low == b % 128
             acc2 == acc + low * mult
         IN  IF b >= 128
               THEN readSLEB128From(data, offset + 1, mult * 128, acc2, n + 1)
               ELSE [ok |-> TRUE,
                     value |-> IF low >= 64 THEN acc2 - mult * 128 ELSE acc2,
                     size |-> n + 1]

\* readSignedLEB128(data, offset, &result): the value and the number of bytes
\* read. ok = FALSE when the read runs off the end of data (a read outside the
\* buffer: undefined behaviour in the source).
readSignedLEB128(data, offset) == readSLEB128From(data, offset, 1, 0, 0)

\* appendString: the LEB-encoded length followed by the bytes.
appendString(vector, str) == appendSignedLEB128(vector, Len(str)) \o str

(***************************************************************************)
(* Data model.                                                             *)
(***************************************************************************)
\* The lexical data starts with the shared empty record at this offset.
kEmptyLexicalDataOffset == 0

DebugSourceLocation(fid, addr, ln, col, stmt, url) ==
  [filenameId |-> fid, address |-> addr, line |-> ln, column |-> col,
   statement |-> stmt, sourceMappingUrlId |-> url]

DebugFileRegion(from, fid, url) ==
  [fromAddress |-> from, filenameId |-> fid, sourceMappingUrlId |-> url]

\* delta(to, from): the signed difference of two uint32_t fields.
delta(to, from) == to - from

\* The tagged line delta the encoder writes: bits 1.. hold the line delta,
\* bit 0 the presence of a statement delta. The source computes it in int64_t.
tagLineDelta(ldelta, sdelta) == (ldelta * 2) + (IF sdelta # 0 THEN 1 ELSE 0)

\* lineDelta & 1 on the decoded tagged value (two's complement).
hasStatementDelta(tagged) == tagged % 2 = 1

\* Mutant of lineDeltaOf: division by two that truncates toward zero.
lineDeltaOf_Truncating(tagged) ==
  IF tagged < 0 /\ tagged % 2 = 1
    THEN ((tagged - 1) \div 2) + 1
    ELSE (tagged - (tagged % 2)) \div 2

\* lineDelta >>= 1 on an int64_t: the arithmetic shift, rounding toward
\* negative infinity.
lineDeltaOf(tagged) == (tagged - (tagged % 2)) \div 2

(***************************************************************************)
(* DebugInfoGenerator::appendSourceLocations                               *)
(***************************************************************************)
\* Mutant of appendOneLocation: the presence bit is left out of the line delta.
appendOneLocation_NoPresenceBit(g, previous, next, start) ==
  LET files2 == IF next.filenameId # previous.filenameId
                  THEN Append(g.files, DebugFileRegion(Len(g.data), next.filenameId,
                                                       start.sourceMappingUrlId))
                  ELSE g.files
      sdelta == delta(next.statement, previous.statement)
      d1 == appendSignedLEB128(g.data, delta(next.address, previous.address))
      d2 == appendSignedLEB128(d1, delta(next.line, previous.line) * 2)
      d3 == appendSignedLEB128(d2, delta(next.column, previous.column))
      d4 == IF sdelta # 0 THEN appendSignedLEB128(d3, sdelta) ELSE d3
  IN  [data |-> d4, files |-> files2]

\* Mutant of appendOneLocation: the file region of a filename change is
\* recorded after the record's bytes were appended.
appendOneLocation_RegionAfterRecord(g, previous, next, start) ==
  LET sdelta == delta(next.statement, previous.statement)
      d1 == appendSignedLEB128(g.data, delta(next.address, previous.address))
      d2 == appendSignedLEB128(d1, (delta(next.line, previous.line) * 2)
                                     + (IF sdelta # 0 THEN 1 ELSE 0))
      d3 == appendSignedLEB128(d2, delta(next.column, previous.column))
      d4 == IF sdelta # 0 THEN appendSignedLEB128(d3, sdelta) ELSE d3
      files2 == IF next.filenameId # previous.filenameId
                  THEN Append(g.files, DebugFileRegion(Len(d4), next.filenameId,
                                                       start.sourceMappingUrlId))
                  ELSE g.files
  IN  [data |-> d4, files |-> files2]

\* Mutant of appendOneLocation: the statement delta is written in every
\* record.
appendOneLocation_StatementAlwaysWritten(g, previous, next, start) ==
  LET files2 == IF next.filenameId # previous.filenameId
                  THEN Append(g.files, DebugFileRegion(Len(g.data), next.filenameId,
                                                       start.sourceMappingUrlId))
                  ELSE g.files
      sdelta == delta(next.statement, previous.statement)
      d1 == appendSignedLEB128(g.data, delta(next.address, previous.address))
      d2 == appendSignedLEB128(d1, (delta(next.line, previous.line) * 2)
                                     + (IF sdelta # 0 THEN 1 ELSE 0))
      d3 == appendSignedLEB128(d2, delta(next.column, previous.column))
      d4 == appendSignedLEB128(d3, sdelta)
  IN  [data |-> d4, files |-> files2]

\* One iteration of the loop over offsets: a file region when the filename
\* changes, then the record's deltas.
appendOneLocation(g, previous, next, start) ==
  LET files2 == IF next.filenameId # previous.filenameId
                  THEN Append(g.files, DebugFileRegion(Len(g.data), next.filenameId,
                                                       start.sourceMappingUrlId))
                  ELSE g.files
      adelta == delta(next.address, previous.address)
      ldelta0 == delta(next.line, previous.line)
      cdelta == delta(next.column, previous.column)
      sdelta == delta(next.statement, previous.statement)
      ldelta == tagLineDelta(ldelta0, sdelta)
      d1 == appendSignedLEB128(g.data, adelta)
      d2 == appendSignedLEB128(d1, ldelta)
      d3 == appendSignedLEB128(d2, cdelta)
      d4 == IF sdelta # 0 THEN appendSignedLEB128(d3, sdelta) ELSE d3
  IN  [data |-> d4, files |-> files2]

RECURSIVE appendLocationsLoop(_, _, _, _, _)
appendLocationsLoop(g, previous, offsets, i, start) ==
  IF i > Len(offsets)
    THEN g
    ELSE appendLocationsLoop(appendOneLocation(g, previous, offsets[i], start),
                             offsets[i], offsets, i + 1, start)

\* Mutant of appendSourceLocations: the header's file region is pushed before
\* the empty list is detected.
appendSourceLocations_RegionBeforeEmptyCheck(data, files, start, functionIndex, offsets) ==
  LET startOffset == Len(data)
      files1 == IF files = <<>> \/ files[Len(files)].filenameId # start.filenameId
                  THEN Append(files, DebugFileRegion(startOffset, start.filenameId,
                                                     start.sourceMappingUrlId))
                  ELSE files
  IN  IF offsets = <<>>
        THEN [data |-> data, files |-> files1, ret |-> startOffset]
        ELSE
          LET h1 == appendSignedLEB128(data, functionIndex)
              h2 == appendSignedLEB128(h1, start.line)
              h3 == appendSignedLEB128(h2, start.column)
              g == appendLocationsLoop([data |-> h3, files |-> files1], start, offsets, 1, start)
          IN  [data |-> appendSignedLEB128(g.data, -1), files |-> g.files, ret |-> startOffset]

\* Mutant of appendSourceLocations: the header's file region is put in front
\* of the table.
appendSourceLocations_HeaderRegionAtFront(data, files, start, functionIndex, offsets) ==
  LET startOffset == Len(data)
  IN  IF offsets = <<>>
        THEN [data |-> data, files |-> files, ret |-> startOffset]
        ELSE
          LET files1 == IF files = <<>> \/ files[Len(files)].filenameId # start.filenameId
                          THEN <<DebugFileRegion(startOffset, start.filenameId,
                                                 start.sourceMappingUrlId)>> \o files
                          ELSE files
              h1 == appendSignedLEB128(data, functionIndex)
              h2 == appendSignedLEB128(h1, start.line)
              h3 == appendSignedLEB128(h2, start.column)
              g == appendLocationsLoop([data |-> h3, files |-> files1], start, offsets, 1, start)
          IN  [data |-> appendSignedLEB128(g.data, -1), files |-> g.files, ret |-> startOffset]

\* Mutant of appendSourceLocations: the header's file region is pushed
\* whatever the last region's filename is.
appendSourceLocations_HeaderRegionAlways(data, files, start, functionIndex, offsets) ==
  LET startOffset == Len(data)
  IN  IF offsets = <<>>
        THEN [data |-> data, files |-> files, ret |-> startOffset]
        ELSE
          LET files1 == Append(files, DebugFileRegion(startOffset, start.filenameId,
                                                      start.sourceMappingUrlId))
              h1 == appendSignedLEB128(data, functionIndex)
              h2 == appendSignedLEB128(h1, start.line)
              h3 == appendSignedLEB128(h2, start.column)
              g == appendLocationsLoop([data |-> h3, files |-> files1], start, offsets, 1, start)
          IN  [data |-> appendSignedLEB128(g.data, -1), files |-> g.files, ret |-> startOffset]

\* The generator's sources buffer and file regions after the call, and the
\* returned offset.
appendSourceLocations(data, files, start, functionIndex, offsets) ==
  LET startOffset == Len(data)
  IN  IF offsets = <<>>
        THEN [data |-> data, files |-> files, ret |-> startOffset]
        ELSE
          LET files1 == IF files = <<>> \/ files[Len(files)].filenameId # start.filenameId
                          THEN Append(files, DebugFileRegion(startOffset, start.filenameId,
                                                             start.sourceMappingUrlId))
                          ELSE files
              h1 == appendSignedLEB128(data, functionIndex)
              h2 == appendSignedLEB128(h1, start.line)
              h3 == appendSignedLEB128(h2, start.column)
              g == appendLocationsLoop([data |-> h3, files |-> files1], start, offsets, 1, start)
          IN  [data |-> appendSignedLEB128(g.data, -1), files |-> g.files, ret |-> startOffset]

(***************************************************************************)
(* DebugInfoGenerator::appendLexicalData                                   *)
(***************************************************************************)
RECURSIVE appendNames(_, _, _)
appendNames(vector, names, i) ==
  IF i > Len(names) THEN vector
  ELSE appendNames(appendString(vector, names[i]), names, i + 1)

\* Mutant of appendLexicalData: no shared empty record, every call writes one.
appendLexicalData_NoSharing(lex, parentFunc, names) ==
  LET startOffset == Len(lex)
      l1 == appendSignedLEB128(lex, IF parentFunc # None THEN parentFunc[1] ELSE -1)
      l2 == appendSignedLEB128(l1, Len(names))
  IN  [lex |-> appendNames(l2, names, 1), ret |-> startOffset]

appendLexicalData(lex, parentFunc, names) ==
  IF parentFunc = None /\ names = <<>>
    THEN [lex |-> lex, ret |-> kEmptyLexicalDataOffset]
    ELSE LET startOffset == Len(lex)
             l1 == appendSignedLEB128(lex, IF parentFunc # None THEN parentFunc[1] ELSE -1)
             l2 == appendSignedLEB128(l1, Len(names))
         IN  [lex |-> appendNames(l2, names, 1), ret |-> startOffset]

(***************************************************************************)
(* FunctionDebugInfoDeserializer                                           *)
(***************************************************************************)
\* The constructor: decode the header at offset. current_ is a default
\* DebugSourceLocation (all fields 0) with the header's line and column.
\* ok turns FALSE when a decode1Int reads outside data.
FunctionDebugInfoDeserializer(data, offset) ==
  LET r1 == readSignedLEB128(data, offset)
      r2 == readSignedLEB128(data, offset + r1.size)
      r3 == readSignedLEB128(data, offset + r1.size + r2.size)
  IN  [offset_ |-> offset + r1.size + r2.size + r3.size,
       functionIndex_ |-> r1.value,
       current_ |-> DebugSourceLocation(0, 0, r2.value, r3.value, 0, 0),
       ok |-> r1.ok /\ r2.ok /\ r3.ok]

\* Mutant of next: the cursor is left on the terminator it has read.
next_TerminatorNotConsumed(fdid, data) ==
  LET ra == readSignedLEB128(data, fdid.offset_)
      addressDelta == ra.value
  IN  IF ~ra.ok
        THEN [fdid |-> [fdid EXCEPT !.ok = FALSE], loc |-> None]
      ELSE IF addressDelta = -1
        THEN [fdid |-> fdid, loc |-> None]
      ELSE
        LET rl == readSignedLEB128(data, fdid.offset_ + ra.size)
            rc == readSignedLEB128(data, fdid.offset_ + ra.size + rl.size)
            hasStatement == rl.value % 2 = 1
            rs == IF hasStatement
                    THEN readSignedLEB128(data, fdid.offset_ + ra.size + rl.size + rc.size)
                    ELSE [ok |-> TRUE, value |-> 0, size |-> 0]
            lineDelta == (rl.value - (rl.value % 2)) \div 2
            cur == [fdid.current_ EXCEPT
                      !.address = @ + addressDelta,
                      !.line = @ + lineDelta,
                      !.column = @ + rc.value,
                      !.statement = @ + rs.value]
        IN  [fdid |-> [fdid EXCEPT
                         !.offset_ = fdid.offset_ + ra.size + rl.size + rc.size + rs.size,
                         !.current_ = cur,
                         !.ok = fdid.ok /\ rl.ok /\ rc.ok /\ rs.ok],
             loc |-> Some(cur)]

\* next(): the deserializer after the call and the returned OptValue.
next(fdid, data) ==
  LET ra == readSignedLEB128(data, fdid.offset_)
      addressDelta == ra.value
  IN  IF ~ra.ok
        THEN [fdid |-> [fdid EXCEPT !.ok = FALSE], loc |-> None]
      ELSE IF addressDelta = -1
        THEN [fdid |-> [fdid EXCEPT !.offset_ = fdid.offset_ + ra.size], loc |-> None]
      ELSE
        LET rl == readSignedLEB128(data, fdid.offset_ + ra.size)
            rc == readSignedLEB128(data, fdid.offset_ + ra.size + rl.size)
            hasStatement == hasStatementDelta(rl.value)
            rs == IF hasStatement
                    THEN readSignedLEB128(data, fdid.offset_ + ra.size + rl.size + rc.size)
                    ELSE [ok |-> TRUE, value |-> 0, size |-> 0]
            lineDelta == lineDeltaOf(rl.value)
            cur == [fdid.current_ EXCEPT
                      !.address = @ + addressDelta,
                      !.line = @ + lineDelta,
                      !.column = @ + rc.value,
                      !.statement = @ + rs.value]
        IN  [fdid |-> [fdid EXCEPT
                         !.offset_ = fdid.offset_ + ra.size + rl.size + rc.size + rs.size,
                         !.current_ = cur,
                         !.ok = fdid.ok /\ rl.ok /\ rc.ok /\ rs.ok],
             loc |-> Some(cur)]

(***************************************************************************)
(* Queries of DebugInfo. A query returns [ub, val]: ub is TRUE when the    *)
(* query read outside the data or failed an assert, val is its OptValue.   *)
(***************************************************************************)
RECURSIVE filenameScan(_, _, _, _)
filenameScan(files, i, debugOffset, value) ==
  IF i > Len(files) THEN value
  ELSE IF files[i].fromAddress <= debugOffset
    THEN filenameScan(files, i + 1, debugOffset, Some(files[i].filenameId))
    ELSE value

getFilenameForAddress(di, debugOffset) == filenameScan(di.files_, 1, debugOffset, None)

RECURSIVE locationLoop(_, _, _, _, _, _)
\* The while loop of getLocationForAddress.
locationLoop(di, fdid, lastLocation, lastLocationOffset, nextLocationOffset, offsetInFunction) ==
  LET n == next(fdid, di.data_)
  IN  IF ~n.fdid.ok
        THEN [ub |-> TRUE, lastLocation |-> lastLocation, lastLocationOffset |-> lastLocationOffset]
      ELSE IF n.loc = None \/ n.loc[1].address > offsetInFunction
        THEN [ub |-> FALSE, lastLocation |-> lastLocation,
              lastLocationOffset |-> lastLocationOffset]
      ELSE locationLoop(di, n.fdid, n.loc[1], nextLocationOffset, n.fdid.offset_,
                        offsetInFunction)

\* Mutant of getLocationForAddress: the filename is looked up at the function's
\* header (debugOffset) instead of lastLocationOffset.
getLocationForAddress_HeaderFile(di, debugOffset, offsetInFunction) ==
  IF ~(debugOffset < Len(di.data_))
    THEN [ub |-> TRUE, val |-> None]
    ELSE
      LET fdid == FunctionDebugInfoDeserializer(di.data_, debugOffset)
          l == locationLoop(di, fdid, fdid.current_, debugOffset, fdid.offset_,
                            offsetInFunction)
          file == getFilenameForAddress(di, debugOffset)
      IN  IF ~fdid.ok \/ l.ub THEN [ub |-> TRUE, val |-> None]
          ELSE IF file # None
            THEN [ub |-> FALSE,
                  val |-> Some([l.lastLocation EXCEPT !.address = offsetInFunction,
                                                      !.filenameId = file[1]])]
            ELSE [ub |-> FALSE, val |-> None]

\* Mutant of getLocationForAddress: the address of the location found is
\* returned as decoded, not overwritten with offsetInFunction.
getLocationForAddress_NoOverwrite(di, debugOffset, offsetInFunction) ==
  IF ~(debugOffset < Len(di.data_))
    THEN [ub |-> TRUE, val |-> None]
    ELSE
      LET fdid == FunctionDebugInfoDeserializer(di.data_, debugOffset)
          l == locationLoop(di, fdid, fdid.current_, debugOffset, fdid.offset_,
                            offsetInFunction)
          file == getFilenameForAddress(di, l.lastLocationOffset)
      IN  IF ~fdid.ok \/ l.ub THEN [ub |-> TRUE, val |-> None]
          ELSE IF file # None
            THEN [ub |-> FALSE, val |-> Some([l.lastLocation EXCEPT !.filenameId = file[1]])]
            ELSE [ub |-> FALSE, val |-> None]

getLocationForAddress(di, debugOffset, offsetInFunction) ==
  IF ~(debugOffset < Len(di.data_))
    THEN [ub |-> TRUE, val |-> None]
    ELSE
      LET fdid == FunctionDebugInfoDeserializer(di.data_, debugOffset)
          l == locationLoop(di, fdid, fdid.current_, debugOffset, fdid.offset_,
                            offsetInFunction)
          file == getFilenameForAddress(di, l.lastLocationOffset)
      IN  IF ~fdid.ok \/ l.ub THEN [ub |-> TRUE, val |-> None]
          ELSE IF file # None
            THEN [ub |-> FALSE,
                  val |-> Some([l.lastLocation EXCEPT !.address = offsetInFunction,
                                                      !.filenameId = file[1]])]
            ELSE [ub |-> FALSE, val |-> None]

DebugSearchResult(functionIndex, address, line, column) ==
  [functionIndex |-> functionIndex, address |-> address, line |-> line, column |-> column]

RECURSIVE fileRangeScan(_, _, _, _)
\* The loop over files_ of getAddressForLocation: foundFile, start and end.
fileRangeScan(di, i, filenameId, r) ==
  IF i > Len(di.files_) THEN r
  ELSE LET cur == di.files_[i]
       IN  IF r.foundFile
             THEN [r EXCEPT !.end = cur.fromAddress]
           ELSE IF cur.filenameId = filenameId
             THEN fileRangeScan(di, i + 1, filenameId,
                                [foundFile |-> TRUE, start |-> cur.fromAddress,
                                 end |-> di.lexicalDataOffset_])
           ELSE fileRangeScan(di, i + 1, filenameId, r)

RECURSIVE searchFunction(_, _, _, _)
\* The inner while loop of getAddressForLocation over one deserializer.
searchFunction(di, fdid, targetLine, targetColumn) ==
  LET n == next(fdid, di.data_)
  IN  IF ~n.fdid.ok THEN [ub |-> TRUE, val |-> None, fdid |-> n.fdid]
      ELSE IF n.loc = None THEN [ub |-> FALSE, val |-> None, fdid |-> n.fdid]
      ELSE IF n.loc[1].line = targetLine
              /\ (targetColumn = None \/ n.loc[1].column = targetColumn[1])
        THEN [ub |-> FALSE,
              val |-> Some(DebugSearchResult(fdid.functionIndex_, n.loc[1].address,
                                             n.loc[1].line, n.loc[1].column)),
              fdid |-> n.fdid]
      ELSE searchFunction(di, n.fdid, targetLine, targetColumn)

RECURSIVE searchLoop(_, _, _, _, _)
\* The outer while (offset < end) loop of getAddressForLocation.
searchLoop(di, offset, end, targetLine, targetColumn) ==
  IF ~(offset < end) THEN [ub |-> FALSE, val |-> None]
  ELSE LET fdid == FunctionDebugInfoDeserializer(di.data_, offset)
           r == searchFunction(di, fdid, targetLine, targetColumn)
       IN  IF ~fdid.ok \/ r.ub THEN [ub |-> TRUE, val |-> None]
           ELSE IF r.val # None THEN [ub |-> FALSE, val |-> r.val]
           ELSE searchLoop(di, r.fdid.offset_, end, targetLine, targetColumn)

getAddressForLocation(di, filenameId, targetLine, targetColumn) ==
  LET range == fileRangeScan(di, 1, filenameId,
                             [foundFile |-> FALSE, start |-> 0, end |-> 0])
  IN  IF ~range.foundFile THEN [ub |-> FALSE, val |-> None]
      ELSE searchLoop(di, range.start, range.end, targetLine, targetColumn)

\* What a getAddressForLocation call may return: its value, or anything when
\* the scan read outside the data (undefined behaviour).
getAddressForLocationOutcomes(di, filenameId, targetLine, targetColumn, anyResult) ==
  LET r == getAddressForLocation(di, filenameId, targetLine, targetColumn)
  IN  IF r.ub THEN anyResult ELSE {r.val}

\* lexicalData(): the part of data_ from lexicalDataOffset_ on.
lexicalData(di) == SubSeq(di.data_, di.lexicalDataOffset_ + 1, Len(di.data_))

\* Mutant of decodeString: the offset is not advanced past the string's bytes.
decodeString_OffsetNotAdvanced(offset, data) ==
  LET r == readSignedLEB128(data, offset)
      off == offset + r.size
      good == r.ok /\ r.value >= 0 /\ r.value + off <= Len(data)
  IN  [ok |-> good,
       offset |-> off,
       str |-> IF good THEN SubSeq(data, off + 1, off + r.value) ELSE <<>>]

\* decodeString: the string at offset and the offset behind it; ok is the
\* function's assert and the bounds of the size read.
decodeString(offset, data) ==
  LET r == readSignedLEB128(data, offset)
      off == offset + r.size
      good == r.ok /\ r.value >= 0 /\ r.value + off <= Len(data)
  IN  [ok |-> good,
       offset |-> off + r.value,
       str |-> IF good THEN SubSeq(data, off + 1, off + r.value) ELSE <<>>]

RECURSIVE namesLoop(_, _, _, _)
namesLoop(data, offset, count, result) ==
  IF count = 0 THEN [ub |-> FALSE, val |-> result]
  ELSE LET d == decodeString(offset, data)
       IN  IF ~d.ok THEN [ub |-> TRUE, val |-> result]
           ELSE namesLoop(data, d.offset, count - 1, Append(result, d.str))

getVariableNames(di, offset) ==
  LET data == lexicalData(di)
      rp == readSignedLEB128(data, offset)
      rc == readSignedLEB128(data, offset + rp.size)
  IN  IF ~rp.ok \/ ~rc.ok \/ rc.value < 0 THEN [ub |-> TRUE, val |-> <<>>]
      ELSE namesLoop(data, offset + rp.size + rc.size, rc.value, <<>>)

getParentFunctionId(di, offset) ==
  LET rp == readSignedLEB128(lexicalData(di), offset)
  IN  IF ~rp.ok THEN [ub |-> TRUE, val |-> None]
      ELSE IF rp.value < 0 THEN [ub |-> FALSE, val |-> None]
      ELSE [ub |-> FALSE, val |-> Some(rp.value)]

(***************************************************************************)
(* DebugInfo::populateSourceMap                                            *)
(***************************************************************************)
\* The filename table (getFilenameByID) and the source list of the source map
\* (SourceMapGenerator::getSourceIndex, the 0-based position of the name).
getFilenameByID(id) == IF id = 1 THEN "a.js" ELSE IF id = 2 THEN "b.js" ELSE "?"
getSourceIndex(filename) == IF filename = "b.js" THEN 0 ELSE IF filename = "a.js" THEN 1 ELSE 2

\* Mutant of segmentFor: the function's offset in the file is not added.
segmentFor_NoFunctionOffset(di, loc, offsetInFile, debugOffset) ==
  LET file == getFilenameForAddress(di, debugOffset)
  IN  [generatedColumn |-> loc.address,
       sourceIndex |-> IF file = None THEN None
                       ELSE Some(getSourceIndex(getFilenameByID(file[1]))),
       representedLine |-> loc.line,
       representedColumn |-> loc.column]

\* sourceIndex is None where the source dereferences an absent
\* getFilenameForAddress result.
segmentFor(di, loc, offsetInFile, debugOffset) ==
  LET file == getFilenameForAddress(di, debugOffset)
  IN  [generatedColumn |-> loc.address + offsetInFile,
       sourceIndex |-> IF file = None THEN None
                       ELSE Some(getSourceIndex(getFilenameByID(file[1]))),
       representedLine |-> loc.line,
       representedColumn |-> loc.column]

RECURSIVE segmentsOfFunction(_, _, _, _, _, _)
\* while (auto loc = fdid.next()) segments.push_back(...)
segmentsOfFunction(di, locsData, fdid, offsetInFile, offset, segments) ==
  LET body(n) ==
        IF ~n.fdid.ok THEN [ub |-> TRUE, segments |-> segments, fdid |-> n.fdid]
        ELSE IF n.loc = None THEN [ub |-> FALSE, segments |-> segments, fdid |-> n.fdid]
        ELSE segmentsOfFunction(di, locsData, n.fdid, offsetInFile, offset,
                                Append(segments,
                                       segmentFor(di, n.loc[1], offsetInFile, offset)))
  IN  Only({body(n) : n \in {next(fdid, locsData)}})

RECURSIVE segmentsLoop(_, _, _, _, _)
\* while (offset < locsData.size()) over the functions of the sources data.
segmentsLoop(di, locsData, functionOffsets, offset, segments) ==
  LET rest(r) ==
        IF r.ub THEN [ub |-> TRUE, segments |-> r.segments]
        ELSE segmentsLoop(di, locsData, functionOffsets, r.fdid.offset_, r.segments)
      body(fdid) ==
        IF ~fdid.ok \/ fdid.functionIndex_ \notin DOMAIN functionOffsets
          THEN [ub |-> TRUE, segments |-> segments]
          ELSE LET offsetInFile == functionOffsets[fdid.functionIndex_]
                   first == Append(segments,
                                   segmentFor(di, fdid.current_, offsetInFile, offset))
               IN  Only({rest(r) : r \in {segmentsOfFunction(di, locsData, fdid, offsetInFile,
                                                             offset, first)}})
  IN  IF ~(offset < Len(locsData)) THEN [ub |-> FALSE, segments |-> segments]
      ELSE Only({body(fdid) : fdid \in {FunctionDebugInfoDeserializer(locsData, offset)}})

\* sourceLocationsData(): the part of data_ before lexicalDataOffset_.
sourceLocationsData(di) == SubSeq(di.data_, 1, di.lexicalDataOffset_)

\* The segments populateSourceMap collects (ub: the walk read outside the
\* data or indexed functionOffsets out of range).
populateSourceMap(di, functionOffsets) ==
  segmentsLoop(di, sourceLocationsData(di), functionOffsets, 0, <<>>)

(***************************************************************************)
(* Inputs of the calls.                                                    *)
(***************************************************************************)
FilenameIds == {1, 2}
\* (line, column) pairs; line 100 needs two LEB bytes, and its deltas too.
Positions == {<<1, 2>>, <<100, 1>>}
\* Every location carries the url id of its file.
UrlIdOf(fid) == fid + 10

\* A function starts at address 0 and statement 0 (asserted by the encoder).
StartLocations ==
  {DebugSourceLocation(1, 0, 1, 2, 0, UrlIdOf(1)),
   DebugSourceLocation(2, 0, 100, 1, 0, UrlIdOf(2))}

\* The locations that may follow prev: the address does not decrease, the
\* statement number stays or advances. Of the sixteen combinations of (address
\* step, statement step, filename, position) the eight of even parity are
\* drawn: every combination of three of the four fields occurs.
NextLocations(prev) ==
  {DebugSourceLocation(q[3], prev.address + q[1], q[4][1], q[4][2],
                       prev.statement + q[2], UrlIdOf(q[3])) :
     q \in {r \in {0, 1} \X {0, 1} \X FilenameIds \X Positions :
              (r[1] + r[2] + r[3] + r[4][2]) % 2 = 0}}

RECURSIVE LocationLists(_, _)
\* The non-empty lists of at most n locations that may follow prev.
LocationLists(prev, n) ==
  IF n <= 0 THEN {}
  ELSE UNION {{<<l>>} \cup {<<l>> \o rest : rest \in LocationLists(l, n - 1)} :
                l \in NextLocations(prev)}

\* The k-th call's function index; 64 needs two LEB bytes.
FunctionIndexOf(k) == IF k % 2 = 1 THEN 64 ELSE k

ParentFuncs == {None, Some(5)}
\* Names are byte strings: "a" and "bc".
NameLists == {<<>>, <<<<97>>, <<98, 99>>>>}

RECURSIVE WorkOf(_, _)
WorkOf(fs, i) == IF i > Len(fs) THEN 0 ELSE 1 + Len(fs[i].offsets) + WorkOf(fs, i + 1)
\* Work given to the generator so far.
WorkDone == WorkOf(funcs, 1) + Len(scopes)

\* functionOffsets: the bytecode offset of every function of the module.
FunctionOffsetTables == {[i \in 0..64 |-> 5 + 7 * i]}
CjsModuleOffsets == {3}

NoDebugInfo == [present |-> FALSE]

(***************************************************************************)
(* State machine.                                                          *)
(***************************************************************************)
\* DebugInfoGenerator::DebugInfoGenerator: the empty lexical record.
Init ==
  /\ sourcesData_ = <<>>
  /\ files_ = <<>>
  /\ lexicalData_ = appendSignedLEB128(appendSignedLEB128(<<>>, -1), 0)
  /\ validData = TRUE
  /\ debugInfo = NoDebugInfo
  /\ sourceMap = <<>>
  /\ funcs = <<>>
  /\ scopes = <<>>
  /\ aborted = FALSE

\* assert(validData) fails: the process aborts.
AssertFails ==
  /\ ~validData
  /\ aborted' = TRUE
  /\ UNCHANGED <<sourcesData_, files_, lexicalData_, validData, debugInfo, sourceMap,
                 funcs, scopes>>

AppendSourceLocations(start, functionIndex, offsets) ==
  /\ ~aborted
  /\ \/ AssertFails
     \/ /\ validData
        /\ LET r == appendSourceLocations(sourcesData_, files_, start, functionIndex, offsets)
           IN  /\ sourcesData_' = r.data
               /\ files_' = r.files
               /\ funcs' = Append(funcs, [start |-> start, functionIndex |-> functionIndex,
                                          offsets |-> offsets, ret |-> r.ret])
        /\ UNCHANGED <<lexicalData_, validData, debugInfo, sourceMap, scopes, aborted>>

AppendLexicalData(parentFunc, names) ==
  /\ ~aborted
  /\ \/ AssertFails
     \/ /\ validData
        /\ LET r == appendLexicalData(lexicalData_, parentFunc, names)
           IN  /\ lexicalData_' = r.lex
               /\ scopes' = Append(scopes, [parentFunc |-> parentFunc, names |-> names,
                                            ret |-> r.ret])
        /\ UNCHANGED <<sourcesData_, files_, validData, debugInfo, sourceMap, funcs, aborted>>

\* The DebugInfo serializeWithMove builds: the lexical data behind the sources
\* data, the file regions, and the split point.
serialize(sources, files, lex) ==
  [present |-> TRUE,
   files_ |-> files,
   lexicalDataOffset_ |-> Len(sources),
   data_ |-> sources \o lex]

\* Mutant of SerializeWithMove: validData is left TRUE.
SerializeWithMove_StaysValid ==
  /\ ~aborted
  /\ validData
  /\ debugInfo' = serialize(sourcesData_, files_, lexicalData_)
  /\ sourcesData_' = <<>>
  /\ files_' = <<>>
  /\ UNCHANGED <<lexicalData_, validData, sourceMap, funcs, scopes, aborted>>

\* DebugInfoGenerator::serializeWithMove: the lexical data is copied,
\* sourcesData_ and files_ are moved from (left empty).
SerializeWithMove ==
  /\ ~aborted
  /\ \/ AssertFails
     \/ /\ validData
        /\ validData' = FALSE
        /\ debugInfo' = serialize(sourcesData_, files_, lexicalData_)
        /\ sourcesData_' = <<>>
        /\ files_' = <<>>
        /\ UNCHANGED <<lexicalData_, sourceMap, funcs, scopes, aborted>>

\* populateSourceMap(sourceMap, functionOffsets, cjsModuleOffset): one
\* addMappingsLine call. A dereferenced absent filename or a read outside the
\* data is undefined behaviour: any segment list may be handed over.
PopulateSourceMap(functionOffsets, cjsModuleOffset) ==
  /\ ~aborted
  /\ debugInfo.present
  /\ Len(sourceMap) < MaxMapLines
  /\ LET r == populateSourceMap(debugInfo, functionOffsets)
         defined == ~r.ub /\ \A k \in 1..Len(r.segments) : r.segments[k].sourceIndex # None
     IN  \E segments \in IF defined THEN {r.segments} ELSE {r.segments, <<>>} :
           sourceMap' = Append(sourceMap, [segments |-> segments,
                                           cjsModuleOffset |-> cjsModuleOffset])
  /\ UNCHANGED <<sourcesData_, files_, lexicalData_, validData, debugInfo, funcs, scopes,
                 aborted>>

Next ==
  \/ \E start \in StartLocations :
       \E offsets \in {<<>>} \cup LocationLists(start, MaxWork - WorkDone - 1) :
         /\ validData => WorkDone < MaxWork
         /\ AppendSourceLocations(start, FunctionIndexOf(Len(funcs) + 1), offsets)
  \/ \E parentFunc \in ParentFuncs, names \in NameLists :
       /\ validData => WorkDone < MaxWork
       /\ AppendLexicalData(parentFunc, names)
  \/ SerializeWithMove
  \/ \E functionOffsets \in FunctionOffsetTables, cjsModuleOffset \in CjsModuleOffsets :
       PopulateSourceMap(functionOffsets, cjsModuleOffset)

Spec == Init /\ [][Next]_vars

(***************************************************************************)
(* Vocabulary of the properties.                                           *)
(***************************************************************************)
\* The calls that encoded a function (a non-empty location list).
EncodedFuncs == {k \in 1..Len(funcs) : funcs[k].offsets # <<>>}
\* The locations of the k-th call, header first.
AllLocations(k) == <<funcs[k].start>> \o funcs[k].offsets
\* The fields a location stream carries.
Coordinates(loc) == <<loc.address, loc.line, loc.column, loc.statement>>
\* The states the codec's data is examined in: a live process, before any
\* source map line was emitted. populateSourceMap and a failed assert leave
\* the generator and the DebugInfo as they were (C9_ConsumedOnce states it),
\* so the states that follow hold the same data.
Examined == ~aborted /\ sourceMap = <<>>
\* The queries are made on the DebugInfo serializeWithMove returned.
Queryable == debugInfo.present /\ Examined
\* Instruction offsets asked about: every address of the model and one more.
Addresses == 0..(MaxWork + 1)

RECURSIVE decodeAll(_, _, _)
\* while (auto loc = fdid.next()): the locations returned before the first
\* None and the deserializer after that None.
decodeAll(fdid, data, locs) ==
  LET n == next(fdid, data)
  IN  IF ~n.fdid.ok \/ n.loc = None THEN [fdid |-> n.fdid, locs |-> locs]
      ELSE decodeAll(n.fdid, data, Append(locs, n.loc[1]))

\* The sources bytes a deserializer is given: the generator's buffer, or the
\* serialized data once the generator has been consumed.
SourcesBytes == IF debugInfo.present THEN debugInfo.data_ ELSE sourcesData_

LastLocationAtOrBefore(k, addr) ==
  LET L == AllLocations(k)
  IN  CHOOSE i \in 1..Len(L) :
        /\ L[i].address <= addr
        /\ \A j \in (i + 1)..Len(L) : L[j].address > addr

C2_LocationForAddress ==
  Queryable =>
    \A k \in EncodedFuncs : \A addr \in Addresses :
      LET r == getLocationForAddress(debugInfo, funcs[k].ret, addr)
          e == AllLocations(k)[LastLocationAtOrBefore(k, addr)]
      IN  /\ ~r.ub
          /\ r.val # None
          /\ r.val[1].line = e.line
          /\ r.val[1].column = e.column
          /\ r.val[1].statement = e.statement
          /\ r.val[1].filenameId = e.filenameId

\* The answer is a location reached after the filename changed inside the
\* function, in a function that follows one whose filename changed too.
C2_Witness ==
  /\ Queryable
  /\ \E k \in EncodedFuncs : \E addr \in Addresses :
       LET i == LastLocationAtOrBefore(k, addr)
       IN  /\ \E j \in EncodedFuncs :
                j < k /\ funcs[j].offsets[1].filenameId # funcs[j].start.filenameId
           /\ i > 1
           /\ AllLocations(k)[i].filenameId # funcs[k].start.filenameId
           /\ getLocationForAddress(debugInfo, funcs[k].ret, addr).val # None

(***************************************************************************)
(* C5. getLocationForAddress(fnOff, addr) on an encoded function never     *)
(* returns "not found", and the returned address field is addr.            *)
(***************************************************************************)
C5_AddressOverwritten ==
  Queryable =>
    \A k \in EncodedFuncs : \A addr \in Addresses :
      LET r == getLocationForAddress(debugInfo, funcs[k].ret, addr)
      IN  ~r.ub /\ r.val # None /\ r.val[1].address = addr

\* An address strictly between two recorded addresses cannot occur (steps are
\* 0 or 1): the witness asks past the last recorded address.
C5_Witness ==
  /\ Queryable
  /\ \E k \in EncodedFuncs : \E addr \in Addresses :
       /\ addr > AllLocations(k)[Len(AllLocations(k))].address
       /\ getLocationForAddress(debugInfo, funcs[k].ret, addr).val # None

(***************************************************************************)
(* C3. getAddressForLocation(filenameId, line, column?) returns the first  *)
(* non-header location, in stream order, whose filenameId, line and (when  *)
(* given) column equal the arguments, whenever there is one - also when    *)
(* the file occupies several file regions.                                 *)
(***************************************************************************)
Lines == {p[1] : p \in Positions}
Columns == {p[2] : p \in Positions}
TargetColumns == {None} \cup {Some(c) : c \in Columns}
\* Results a call with undefined behaviour may produce.
AnySearchResult ==
  {None} \cup {Some(DebugSearchResult(funcs[k].functionIndex, a, l, c)) :
                 k \in 1..Len(funcs), a \in Addresses, l \in Lines, c \in Columns}

\* <<k, i>>: the i-th location of the list of the k-th call matches.
Matches(filenameId, line, column) ==
  {m \in UNION {{<<k, i>> : i \in 1..Len(funcs[k].offsets)} : k \in EncodedFuncs} :
     LET loc == funcs[m[1]].offsets[m[2]]
     IN  /\ loc.filenameId = filenameId
         /\ loc.line = line
         /\ column = None \/ loc.column = column[1]}

FirstInStreamOrder(M) ==
  CHOOSE m \in M : \A o \in M : m[1] < o[1] \/ (m[1] = o[1] /\ m[2] <= o[2])

C3_FirstMatch ==
  Queryable =>
    \A filenameId \in FilenameIds, line \in Lines, column \in TargetColumns :
      LET M == Matches(filenameId, line, column)
          m == FirstInStreamOrder(M)
          loc == funcs[m[1]].offsets[m[2]]
      IN  M # {} =>
            getAddressForLocationOutcomes(debugInfo, filenameId, line, column, AnySearchResult)
              = {Some(DebugSearchResult(funcs[m[1]].functionIndex, loc.address,
                                        loc.line, loc.column))}

(***************************************************************************)
(* C4. Filename-change boundary: when two consecutive locations of a       *)
(* function differ in filenameId, a file region starts at the byte offset  *)
(* of the second location's record; getFilenameForAddress gives the first  *)
(* location's filename at every byte of the first location's record and    *)
(* the second's from the second record's start up to the next file region. *)
(***************************************************************************)
RECURSIVE cursorTrail(_, _, _)
\* getOffset() before each next() call, up to the one that returns None.
cursorTrail(fdid, data, trail) ==
  LET n == next(fdid, data)
  IN  IF ~n.fdid.ok \/ n.loc = None THEN Append(trail, fdid.offset_)
      ELSE cursorTrail(n.fdid, data, Append(trail, fdid.offset_))

\* RecordStarts(k)[j]: the byte offset where the j-th location of
\* AllLocations(k) is encoded (1: the header); the last entry is the offset of
\* the terminator.
RecordStarts(k) ==
  <<funcs[k].ret>> \o
    cursorTrail(FunctionDebugInfoDeserializer(debugInfo.data_, funcs[k].ret),
                debugInfo.data_, <<>>)

FilenameChanges(k) ==
  {i \in 1..Len(funcs[k].offsets) :
     AllLocations(k)[i].filenameId # AllLocations(k)[i + 1].filenameId}

C4_FilenameBoundary ==
  Queryable =>
    \A k \in EncodedFuncs : \A i \in FilenameChanges(k) :
      LET O == RecordStarts(k)
          first == AllLocations(k)[i]
          second == AllLocations(k)[i + 1]
          F == debugInfo.files_
          R == {r \in 1..Len(F) : F[r].fromAddress = O[i + 1]}
      IN  /\ Cardinality(R) = 1
          /\ \A r \in R :
               /\ F[r].filenameId = second.filenameId
               /\ \A o \in O[i + 1]..(IF r < Len(F) THEN F[r + 1].fromAddress - 1
                                      ELSE Len(debugInfo.data_)) :
                    getFilenameForAddress(debugInfo, o) = Some(second.filenameId)
          /\ \A o \in O[i]..(O[i + 1] - 1) :
               getFilenameForAddress(debugInfo, o) = Some(first.filenameId)

\* The filename changes twice in a row inside one function, so the second
\* location's region is followed by another one.
C4_Witness ==
  /\ Queryable
  /\ \E k \in EncodedFuncs :
       /\ 1 \in FilenameChanges(k) /\ 2 \in FilenameChanges(k)
       /\ getFilenameForAddress(debugInfo, RecordStarts(k)[2])
            = Some(funcs[k].offsets[1].filenameId)

(***************************************************************************)
(* C6. Empty-scope sharing: appendLexicalData(none, []) returns            *)
(* kEmptyLexicalDataOffset and leaves the lexical buffer unchanged,        *)
(* whatever was appended before; on the serialized data that offset reads  *)
(* back as no names and no parent.                                         *)
(***************************************************************************)
IsEmptyScope(call) == call.parentFunc = None /\ call.names = <<>>

C6_EmptyScopeShared ==
  /\ [][(Len(scopes') = Len(scopes) + 1 /\ IsEmptyScope(scopes'[Len(scopes')]))
          => /\ scopes'[Len(scopes')].ret = kEmptyLexicalDataOffset
             /\ lexicalData_' = lexicalData_]_vars
  /\ [](Queryable =>
          /\ getVariableNames(debugInfo, kEmptyLexicalDataOffset) = [ub |-> FALSE, val |-> <<>>]
          /\ getParentFunctionId(debugInfo, kEmptyLexicalDataOffset) = [ub |-> FALSE, val |-> None])

\* Two empty-scope calls, the second after a scope with names, serialized.
C6_Witness ==
  /\ Queryable
  /\ \E j, k, l \in 1..Len(scopes) :
       /\ j < k /\ k < l
       /\ IsEmptyScope(scopes[j]) /\ ~IsEmptyScope(scopes[k]) /\ IsEmptyScope(scopes[l])
       /\ scopes[l].ret = kEmptyLexicalDataOffset

(***************************************************************************)
(* C7. Lexical round trip: a scope appended with parent p and names N      *)
(* (not both absent) reads back, at the returned offset, as exactly N and  *)
(* p, at the time of the call and after every later append, up to and      *)
(* after serialization.                                                    *)
(***************************************************************************)
\* The DebugInfo as serialized, or as it would be serialized now.
ReadableDebugInfo ==
  IF debugInfo.present THEN debugInfo ELSE serialize(sourcesData_, files_, lexicalData_)

C7_LexicalRoundTrip ==
  Examined =>
    \A k \in 1..Len(scopes) :
      ~IsEmptyScope(scopes[k]) =>
        /\ getVariableNames(ReadableDebugInfo, scopes[k].ret)
             = [ub |-> FALSE, val |-> scopes[k].names]
        /\ getParentFunctionId(ReadableDebugInfo, scopes[k].ret)
             = [ub |-> FALSE, val |-> scopes[k].parentFunc]

\* A scope without parent and with names, followed by a later scope with a
\* parent, serialized behind a function's source locations.
C7_Witness ==
  /\ Queryable
  /\ EncodedFuncs # {}
  /\ \E j, k \in 1..Len(scopes) :
       /\ j < k
       /\ scopes[j].parentFunc = None /\ scopes[j].names # <<>>
       /\ scopes[k].parentFunc # None
       /\ getVariableNames(debugInfo, scopes[j].ret).val = scopes[j].names

(***************************************************************************)
(* C8. appendSourceLocations with an empty location list returns the       *)
(* current size of the sources buffer and changes neither the sources      *)
(* buffer nor the file regions nor the lexical buffer.                     *)
(***************************************************************************)
C8_EmptyListNoEffect ==
  [][(Len(funcs') = Len(funcs) + 1 /\ funcs'[Len(funcs')].offsets = <<>>)
       => /\ funcs'[Len(funcs')].ret = Len(sourcesData_)
          /\ sourcesData_' = sourcesData_
          /\ files_' = files_
          /\ lexicalData_' = lexicalData_]_vars

\* The last call had an empty list and a start whose filename differs from
\* the last file region's.
C8_Witness ==
  /\ validData
  /\ funcs # <<>> /\ funcs[Len(funcs)].offsets = <<>>
  /\ files_ # <<>>
  /\ files_[Len(files_)].filenameId # funcs[Len(funcs)].start.filenameId
  /\ funcs[Len(funcs)].ret = Len(sourcesData_)

(***************************************************************************)
(* C9. Generator lifecycle: once serializeWithMove has produced a          *)
(* DebugInfo, every further appendSourceLocations, appendLexicalData or    *)
(* serializeWithMove call fails its assert; no call changes the generator  *)
(* or the DebugInfo any more, and no second DebugInfo is produced.         *)
(***************************************************************************)
C9_ConsumedOnce ==
  [][debugInfo.present
       => /\ debugInfo' = debugInfo
          /\ UNCHANGED <<sourcesData_, files_, lexicalData_, validData, funcs, scopes>>
          /\ sourceMap' = sourceMap => aborted']_vars

\* A call on the consumed generator has failed.
C9_Witness == debugInfo.present /\ aborted /\ ~validData /\ funcs # <<>>

(***************************************************************************)
(* C10. populateSourceMap hands over one line tagged with cjsModuleOffset  *)
(* that holds one segment per recorded position of every encoded function, *)
(* in stream order: generatedColumn = address + functionOffsets[index],    *)
(* the location's line and column, and the source index of the filename of *)
(* the function's header, which is always present.                         *)
(***************************************************************************)
ExpectedSegment(k, loc, functionOffsets) ==
  [generatedColumn |-> loc.address + functionOffsets[funcs[k].functionIndex],
   sourceIndex |-> Some(getSourceIndex(getFilenameByID(funcs[k].start.filenameId))),
   representedLine |-> loc.line,
   representedColumn |-> loc.column]

RECURSIVE ExpectedSegments(_, _)
\* The segments of the calls k, k + 1, ...
ExpectedSegments(k, functionOffsets) ==
  IF k > Len(funcs) THEN <<>>
  ELSE [i \in 1..(IF k \in EncodedFuncs THEN Len(AllLocations(k)) ELSE 0) |->
          ExpectedSegment(k, AllLocations(k)[i], functionOffsets)]
       \o ExpectedSegments(k + 1, functionOffsets)

C10_SourceMapSegments ==
  /\ Len(sourceMap) <= MaxMapLines
  /\ \A j \in 1..Len(sourceMap) :
       /\ sourceMap[j].cjsModuleOffset \in CjsModuleOffsets
       /\ \E functionOffsets \in FunctionOffsetTables :
            sourceMap[j].segments = ExpectedSegments(1, functionOffsets)

\* A source map of two functions, one with a filename change after its
\* header.
C10_Witness ==
  /\ sourceMap # <<>>
  /\ Cardinality(EncodedFuncs) >= 2
  /\ \E k \in EncodedFuncs : FilenameChanges(k) # {}
  /\ Len(sourceMap[1].segments) >= 4

(***************************************************************************)
(* C11. Every deserializer getAddressForLocation constructs starts at a    *)
(* function header: each offset of the scan loop over [start, end) is the  *)
(* offset appendSourceLocations returned for an encoded function, and the  *)
(* scan decodes no byte at or beyond lexicalDataOffset.                    *)
(***************************************************************************)
RECURSIVE searchLoopTrail(_, _, _, _, _, _)
\* The while (offset < end) loop of getAddressForLocation, recorded: for each
\* deserializer, the offset it was constructed at, the cursor it was left at,
\* and whether it read outside the data.
searchLoopTrail(di, offset, end, targetLine, targetColumn, trail) ==
  IF ~(offset < end) THEN trail
  ELSE LET fdid == FunctionDebugInfoDeserializer(di.data_, offset)
           r == searchFunction(di, fdid, targetLine, targetColumn)
           t == Append(trail, [at |-> offset, upTo |-> r.fdid.offset_,
                               ub |-> ~fdid.ok \/ r.ub])
       IN  IF ~fdid.ok \/ r.ub \/ r.val # None THEN t
           ELSE searchLoopTrail(di, r.fdid.offset_, end, targetLine, targetColumn, t)

\* The deserializers a getAddressForLocation call constructs.
searchTrail(di, filenameId, targetLine, targetColumn) ==
  LET range == fileRangeScan(di, 1, filenameId,
                             [foundFile |-> FALSE, start |-> 0, end |-> 0])
  IN  IF ~range.foundFile THEN <<>>
      ELSE searchLoopTrail(di, range.start, range.end, targetLine, targetColumn, <<>>)

\* The offsets at which a function header was encoded.
HeaderOffsets == {funcs[k].ret : k \in EncodedFuncs}

C11_ScanStartsAtHeaders ==
  Queryable =>
    \A filenameId \in FilenameIds, line \in Lines, column \in TargetColumns :
      LET trail == searchTrail(debugInfo, filenameId, line, column)
      IN  \A i \in 1..Len(trail) :
            /\ trail[i].at \in HeaderOffsets
            /\ ~trail[i].ub
            /\ trail[i].upTo <= debugInfo.lexicalDataOffset_

(***************************************************************************)
(* C12. The file-region table is only extended at its end by               *)
(* appendSourceLocations, its fromAddress values are non-decreasing in     *)
(* table order, and getFilenameForAddress(o) is the filenameId of the last *)
(* region with fromAddress <= o, or none when there is no such region.     *)
(***************************************************************************)
\* The file-region table: the generator's, or the DebugInfo's once moved.
FileRegions == ReadableDebugInfo.files_

\* The filenameId of the region of greatest index with fromAddress <= o.
LastRegionAtOrBefore(F, o) ==
  LET R == {r \in 1..Len(F) : F[r].fromAddress <= o}
  IN  IF R = {} THEN None
      ELSE Some(F[CHOOSE r \in R : \A q \in R : q <= r].filenameId)

C12_FileRegionsMonotone ==
  /\ [][funcs' # funcs
          => /\ Len(files_') >= Len(files_)
             /\ SubSeq(files_', 1, Len(files_)) = files_]_vars
  /\ [](Examined =>
          /\ \A r \in 1..(Len(FileRegions) - 1) :
               FileRegions[r].fromAddress <= FileRegions[r + 1].fromAddress
          /\ \A o \in 0..Len(ReadableDebugInfo.data_) :
               getFilenameForAddress(ReadableDebugInfo, o)
                 = LastRegionAtOrBefore(FileRegions, o))

\* A table of three regions or more, extended by two calls, asked about an
\* offset that lies in a region that is neither the first nor the last.
C12_Witness ==
  /\ Queryable
  /\ Cardinality(EncodedFuncs) >= 2
  /\ Len(FileRegions) >= 3
  /\ \E o \in 0..Len(debugInfo.data_) : \E r \in 2..(Len(FileRegions) - 1) :
       /\ FileRegions[r].fromAddress <= o
       /\ o < FileRegions[r + 1].fromAddress
       /\ getFilenameForAddress(debugInfo, o) = Some(FileRegions[r].filenameId)

(***************************************************************************)
(* C13. Header file regions: a call that encodes a function leaves a file  *)
(* region with fromAddress equal to the function's header offset if and    *)
(* only if, when it was called, the table was empty or its last region's   *)
(* filenameId differed from start.filenameId; and getFilenameForAddress at *)
(* the header offset of every encoded function is start.filenameId.        *)
(***************************************************************************)
\* The regions of table F that start at byte offset o.
RegionsAt(F, o) == {r \in 1..Len(F) : F[r].fromAddress = o}

C13_HeaderRegions ==
  /\ [][(Len(funcs') = Len(funcs) + 1 /\ funcs'[Len(funcs')].offsets # <<>>)
          => (RegionsAt(files_', funcs'[Len(funcs')].ret) # {}
                <=> (files_ = <<>>
                       \/ files_[Len(files_)].filenameId
                            # funcs'[Len(funcs')].start.filenameId))]_vars
  /\ [](Examined =>
          \A k \in EncodedFuncs :
            getFilenameForAddress(ReadableDebugInfo, funcs[k].ret)
              = Some(funcs[k].start.filenameId))

\* A function whose header has no region of its own: it starts in the file
\* the function before it switched to in the middle of its locations.
C13_Witness ==
  /\ Queryable
  /\ \E j, k \in EncodedFuncs :
       /\ j < k
       /\ funcs[j].start.filenameId # funcs[k].start.filenameId
       /\ RegionsAt(FileRegions, funcs[j].ret) # {}
       /\ RegionsAt(FileRegions, funcs[k].ret) = {}
       /\ getFilenameForAddress(debugInfo, funcs[k].ret) = Some(funcs[k].start.filenameId)

(***************************************************************************)
(* C14. Cursor position: after each next() that returns a location,        *)
(* getOffset() is the byte offset at which the encoder started the next    *)
(* record of the function (the terminator after the last location); after  *)
(* the next() that returns None it is the header offset of the next        *)
(* encoded function, or the end of the sources data. Deserializers walked  *)
(* from offset 0, each started where the one before stopped, visit the     *)
(* encoded functions once each in append order and stop at                 *)
(* lexicalDataOffset.                                                      *)
(***************************************************************************)
\* The bytes the encoder writes for the header and the first j locations of
\* the k-th call, counted on a buffer of their own.
EncodedSize(k, j) ==
  LET f == funcs[k]
      h == appendSignedLEB128(appendSignedLEB128(appendSignedLEB128(<<>>, f.functionIndex),
                                                 f.start.line), f.start.column)
  IN  Len(appendLocationsLoop([data |-> h, files |-> <<>>], f.start,
                              SubSeq(f.offsets, 1, j), 1, f.start).data)

\* Where the sources data ends: lexicalDataOffset once serialized.
SourcesEnd == ReadableDebugInfo.lexicalDataOffset_

\* The header offset of the encoded function after the k-th call's, or the
\* end of the sources data.
NextHeaderOffset(k) ==
  LET later == {j \in EncodedFuncs : j > k}
  IN  IF later = {} THEN SourcesEnd
      ELSE funcs[CHOOSE j \in later : \A i \in later : j <= i].ret

RECURSIVE walkFunctions(_, _, _, _)
\* while (offset < end) { fdid(data, offset); while (fdid.next()); offset =
\* fdid.getOffset(); }: the offset and function index of each deserializer and
\* the offset the walk stops at.
walkFunctions(data, offset, end, visited) ==
  IF ~(offset < end) THEN [ok |-> TRUE, visited |-> visited, offset |-> offset]
  ELSE LET fdid == FunctionDebugInfoDeserializer(data, offset)
           d == decodeAll(fdid, data, <<>>)
       IN  IF ~fdid.ok \/ ~d.fdid.ok
             THEN [ok |-> FALSE, visited |-> visited, offset |-> offset]
             ELSE walkFunctions(data, d.fdid.offset_, end,
                                Append(visited, <<offset, fdid.functionIndex_>>))

RECURSIVE EncodedHeaders(_)
\* <<header offset, function index>> of the encoded functions among the calls
\* k, k + 1, ...
EncodedHeaders(k) ==
  IF k > Len(funcs) THEN <<>>
  ELSE (IF k \in EncodedFuncs THEN <<<<funcs[k].ret, funcs[k].functionIndex>>>> ELSE <<>>)
       \o EncodedHeaders(k + 1)

C14_CursorPosition ==
  Queryable =>
    /\ \A k \in EncodedFuncs :
         LET fdid == FunctionDebugInfoDeserializer(SourcesBytes, funcs[k].ret)
             T == cursorTrail(fdid, SourcesBytes, <<>>)
             d == decodeAll(fdid, SourcesBytes, <<>>)
         IN  /\ Len(T) = Len(funcs[k].offsets) + 1
             /\ T = [j \in 1..(Len(funcs[k].offsets) + 1) |->
                       funcs[k].ret + EncodedSize(k, j - 1)]
             /\ d.fdid.ok
             /\ d.fdid.offset_ = NextHeaderOffset(k)
    /\ walkFunctions(SourcesBytes, 0, SourcesEnd, <<>>)
         = [ok |-> TRUE, visited |-> EncodedHeaders(1), offset |-> SourcesEnd]

\* Two encoded functions, one with a record of four ints, serialized in
\* front of the lexical data; the walk has visited both and stopped before
\* the lexical data.
C14_Witness ==
  /\ Queryable
  /\ Cardinality(EncodedFuncs) = 2
  /\ \E k \in EncodedFuncs : funcs[k].offsets[1].statement # 0
  /\ walkFunctions(SourcesBytes, 0, SourcesEnd, <<>>).offset < Len(debugInfo.data_)
  /\ Len(walkFunctions(SourcesBytes, 0, SourcesEnd, <<>>).visited) = 2

(***************************************************************************)
(* C15. Statement-presence invariant: in every encoded delta record the    *)
(* statement delta is written if and only if the location's statement      *)
(* differs from the previous location's, if and only if the low bit of the *)
(* written tagged line delta is 1; next() consumes exactly the record's    *)
(* bytes, so it reads a fourth int exactly in that case; and the decoded   *)
(* statement equals the previously decoded one exactly when the statement  *)
(* delta was omitted.                                                      *)
(***************************************************************************)
RECURSIVE decodeInts(_, _, _)
\* decode1Int() repeated from offset to the end of bytes.
decodeInts(bytes, offset, ints) ==
  IF offset >= Len(bytes) THEN ints
  ELSE LET r == readSignedLEB128(bytes, offset)
       IN  IF ~r.ok THEN ints
           ELSE decodeInts(bytes, offset + r.size, Append(ints, r.value))

\* The bytes of the record of the i-th location of the k-th call's list, as
\* they lie in the sources data.
RecordBytes(k, i) ==
  SubSeq(SourcesBytes, funcs[k].ret + EncodedSize(k, i - 1) + 1,
         funcs[k].ret + EncodedSize(k, i))

C15_StatementPresence ==
  Queryable =>
    \A k \in EncodedFuncs :
      LET fdid == FunctionDebugInfoDeserializer(SourcesBytes, funcs[k].ret)
          T == cursorTrail(fdid, SourcesBytes, <<>>)
          D == <<fdid.current_>> \o decodeAll(fdid, SourcesBytes, <<>>).locs
          B == [i \in 1..Len(funcs[k].offsets) |-> RecordBytes(k, i)]
      IN  /\ Len(T) = Len(funcs[k].offsets) + 1
          /\ Len(D) = Len(funcs[k].offsets) + 1
          /\ \A i \in 1..Len(funcs[k].offsets) :
               LET ints == decodeInts(B[i], 0, <<>>)
                   written == Len(ints) = 4
                   changed == AllLocations(k)[i + 1].statement # AllLocations(k)[i].statement
               IN  /\ Len(ints) \in {3, 4}
                   /\ written <=> changed
                   /\ written <=> (ints[2] % 2 = 1)
                   /\ T[i + 1] - T[i] = Len(B[i])
                   /\ (D[i + 1].statement = D[i].statement) <=> ~written

\* One function with a record that carries a statement delta followed by a
\* record that omits it, and a second statement delta later on.
C15_Witness ==
  /\ Queryable
  /\ \E k \in EncodedFuncs :
       /\ Len(funcs[k].offsets) >= 3
       /\ Len(decodeInts(RecordBytes(k, 1), 0, <<>>)) = 4
       /\ Len(decodeInts(RecordBytes(k, 2), 0, <<>>)) = 3
       /\ Len(decodeInts(RecordBytes(k, 3), 0, <<>>)) = 4

(***************************************************************************)
(* C16. The tagged line delta is sign-safe: for a line delta d (negative,  *)
(* zero or positive) and a presence flag b, the encoder's tagged value     *)
(* t = 2 * d + b has low bit b and shifts back to exactly d, also through  *)
(* its LEB128 bytes; so every decoded line equals the encoded one, with a  *)
(* negative line delta and a statement change too.                         *)
(***************************************************************************)
\* Line deltas: the small ones, and those around the powers of two where the
\* LEB128 encoding of the tagged value grows by a byte, up to the largest
\* magnitudes whose tagged value is a 32-bit integer.
LineDeltas ==
  (-70..70) \cup {-8193, -8192, 8191, 8192, -1048577, -1048576, 1048575, 1048576,
                  -67108864, 67108863, -1073741824, -1073741823, 1073741822, 1073741823}
\* Statement deltas: absent, forward, backward.
StatementDeltas == {0, 1, -1}
\* Tagged values of at most four LEB128 bytes.
FourByteValues == -134217728..134217727

\* The first conjunct does not depend on the state: it is evaluated in the
\* states in which nothing has been appended yet.
C16_TaggedLineDelta ==
  /\ WorkDone = 0 =>
     \A d \in LineDeltas, sdelta \in StatementDeltas :
       LET t == tagLineDelta(d, sdelta)
           r == readSignedLEB128(encodeSLEB128(t), 0)
       IN  /\ hasStatementDelta(t) <=> sdelta # 0
           /\ lineDeltaOf(t) = d
           /\ t \in FourByteValues =>
                /\ r.ok /\ r.size = Len(encodeSLEB128(t))
                /\ hasStatementDelta(r.value) <=> sdelta # 0
                /\ lineDeltaOf(r.value) = d
  /\ Queryable =>
       \A k \in EncodedFuncs :
         LET D == decodeAll(FunctionDebugInfoDeserializer(SourcesBytes, funcs[k].ret),
                            SourcesBytes, <<>>).locs
         IN  /\ Len(D) = Len(funcs[k].offsets)
             /\ \A i \in 1..Len(funcs[k].offsets) :
                  LET ints == decodeInts(RecordBytes(k, i), 0, <<>>)
                      d == delta(AllLocations(k)[i + 1].line, AllLocations(k)[i].line)
                  IN  /\ Len(ints) >= 2
                      /\ lineDeltaOf(ints[2]) = d
                      /\ D[i].line = AllLocations(k)[i + 1].line

\* A record with a negative line delta and a statement delta, and another
\* with a negative line delta and none, decoded from the serialized data.
C16_Witness ==
  /\ Queryable
  /\ \E k, l \in EncodedFuncs :
       \E i \in 1..Len(funcs[k].offsets), j \in 1..Len(funcs[l].offsets) :
         LET t == decodeInts(RecordBytes(k, i), 0, <<>>)[2]
             u == decodeInts(RecordBytes(l, j), 0, <<>>)[2]
         IN  /\ t < 0 /\ hasStatementDelta(t)
             /\ u < 0 /\ ~hasStatementDelta(u)
             /\ lineDeltaOf(t) = delta(AllLocations(k)[i + 1].line, AllLocations(k)[i].line)

(***************************************************************************)
(* C17. Soundness of getAddressForLocation: a result {functionIndex,       *)
(* address, line, column} is a location of the list given for a function   *)
(* with that index, with exactly that address, line and column, and with   *)
(* the requested filenameId; and a filenameId that has no file region      *)
(* yields "not found".                                                     *)
(***************************************************************************)
\* The locations of the lists (headers excluded) a result may stand for.
SoundResults(filenameId) ==
  {DebugSearchResult(funcs[k].functionIndex, funcs[k].offsets[i].address,
                     funcs[k].offsets[i].line, funcs[k].offsets[i].column) :
     <<k, i>> \in {m \in UNION {{<<k, i>> : i \in 1..Len(funcs[k].offsets)} :
                                   k \in EncodedFuncs} :
                     funcs[m[1]].offsets[m[2]].filenameId = filenameId}}

C17_SearchSound ==
  Queryable =>
    \A filenameId \in FilenameIds, line \in Lines, column \in TargetColumns :
      \A res \in getAddressForLocationOutcomes(debugInfo, filenameId, line, column,
                                               AnySearchResult) :
        /\ res # None => res[1] \in SoundResults(filenameId)
        /\ (\A r \in 1..Len(debugInfo.files_) : debugInfo.files_[r].filenameId # filenameId)
             => res = None

====
